---- MODULE Spec2Model ----
(***************************************************************************)
(* stac-fastapi: the transaction extension's route registration            *)
(* (extensions/core/transaction.py), the core clients' landing page and    *)
(* conformance list (types/core.py), and the collection store that the     *)
(* transaction routes are served from (exercised by                        *)
(* tests/resources/test_collection.py).                                    *)
(***************************************************************************)
EXTENDS Integers, Sequences, FiniteSets, TLC

VARIABLES
    client,        \* TransactionExtension.client: the class of the transactions client
    router,        \* TransactionExtension.router: the routes added so far, in order
    app_routes,    \* the application's routes (after app.include_router)
    startup,       \* outcome of the startup-time register(app) calls
    register_calls,\* number of register(app) calls made
    store,         \* the concrete client's stored collections, by id
    response,      \* the response to the last transaction request
    extensions,    \* the core clients' extension registry (same registry for both)
    conf_calls,    \* number of list_conformance_classes calls made
    conf_result,   \* what the last list_conformance_classes call returned
    pending,       \* suspended AsyncBaseCoreClient.landing_page calls (awaiting all_collections)
    last           \* per core client class: the last completed landing_page call

vars == <<client, router, app_routes, startup, register_calls, store, response,
          extensions, conf_calls, conf_result, pending, last>>

txVars == <<client, router, app_routes, startup, register_calls, store, response>>
lpVars == <<extensions, conf_calls, conf_result, pending, last>>

----------------------------------------------------------------------------
(* Bounds *)

MaxRegisterCalls == 2
MaxExtensions == 2
MaxCollections == 2
MaxConfCalls == 2
MaxPending == 2

None == "<None>"        \* Python's None
Absent == "<absent>"    \* a key that a mapping does not hold

RECURSIVE SeqsUpTo(_, _)
SeqsUpTo(S, n) ==
    IF n = 0 THEN {<<>>}
    ELSE LET shorter == SeqsUpTo(S, n - 1)
         IN  shorter \cup {Append(s, x) : s \in {t \in shorter : Len(t) = n - 1}, x \in S}

----------------------------------------------------------------------------
(* Transaction extension: route registration *)

Async == "AsyncBaseTransactionsClient"
Sync == "BaseTransactionsClient"
Duck == "DuckTransactionsClient"   \* a class of neither variant that has the six methods
Bare == "object"                   \* a class of neither variant that has none of them

ClientClasses == {Async, Sync, Duck, Bare}

HasMethods(c) == c \in {Async, Sync, Duck}

Param(seg) == seg \in {"{collection_id}", "{item_id}"}

\* _create_endpoint: the adapter for func, by the client's class
_create_endpoint(c, func) ==
    IF c = Async THEN [raised |-> None, adapter |-> "create_async_endpoint", func |-> func]
    ELSE IF c = Sync THEN [raised |-> None, adapter |-> "create_sync_endpoint", func |-> func]
    ELSE [raised |-> "NotImplementedError", adapter |-> None, func |-> func]

\* endpoint=self.client.<func>: the client's bound method itself
BoundMethod(c, func) == [raised |-> None, adapter |-> None, func |-> func]

Route(name, path, method, endpoint) ==
    [name |-> name, path |-> path, method |-> method, endpoint |-> endpoint]

register_create_item(c) ==
    Route("Create Item", <<"collections", "{collection_id}", "items">>, "POST",
          BoundMethod(c, "create_item"))

register_update_item(c) ==
    Route("Update Item", <<"collections", "{collection_id}", "items", "{item_id}">>, "PUT",
          BoundMethod(c, "update_item"))

register_delete_item(c) ==
    Route("Delete Item", <<"collections", "{collection_id}", "items", "{item_id}">>, "DELETE",
          BoundMethod(c, "delete_item"))

\* the create route bound with the update route's method
register_create_collection_put(c) ==
    Route("Create Collection", <<"collections">>, "PUT",
          BoundMethod(c, "create_collection"))

register_create_collection(c) ==
    Route("Create Collection", <<"collections">>, "POST",
          BoundMethod(c, "create_collection"))

\* the update route bound to the create handler
register_update_collection_creates(c) ==
    Route("Update Collection", <<"collections", "{collection_id}">>, "PUT",
          BoundMethod(c, "create_collection"))

\* the update route bound to the delete handler
register_update_collection_deletes(c) ==
    Route("Update Collection", <<"collections", "{collection_id}">>, "PUT",
          BoundMethod(c, "delete_collection"))

\* the update route bound with the create route's method
register_update_collection_post(c) ==
    Route("Update Collection", <<"collections", "{collection_id}">>, "POST",
          BoundMethod(c, "update_collection"))

register_update_collection(c) ==
    Route("Update Collection", <<"collections", "{collection_id}">>, "PUT",
          BoundMethod(c, "update_collection"))

\* the delete route bound to the create handler
register_delete_collection_creates(c) ==
    Route("Delete Collection", <<"collections", "{collection_id}">>, "DELETE",
          BoundMethod(c, "create_collection"))

\* the delete route bound with the update route's method
register_delete_collection_put(c) ==
    Route("Delete Collection", <<"collections", "{collection_id}">>, "PUT",
          BoundMethod(c, "delete_collection"))

register_delete_collection(c) ==
    Route("Delete Collection", <<"collections", "{collection_id}">>, "DELETE",
          BoundMethod(c, "delete_collection"))

\* the six register_* calls of register(app), in order
RegisteredRoutes(c) ==
    << register_create_item(c), register_update_item(c), register_delete_item(c),
       register_create_collection(c), register_update_collection(c),
       register_delete_collection(c) >>

\* register(app): evaluating self.client.create_item on a client without the
\* methods raises AttributeError in the first register_* call; otherwise the
\* six routes are added and the router is included in the application.
register ==
    /\ register_calls < MaxRegisterCalls
    /\ startup # "failed"
    /\ register_calls' = register_calls + 1
    /\ IF HasMethods(client)
       THEN /\ router' = router \o RegisteredRoutes(client)
            /\ app_routes' = app_routes \o router'
            /\ startup' = "registered"
       ELSE /\ startup' = "failed"
            /\ UNCHANGED <<router, app_routes>>
    /\ UNCHANGED <<client, store, response>>
    /\ UNCHANGED lpVars

----------------------------------------------------------------------------
(* Serving transaction requests: the router's dispatch and the collection store *)

Ids == {"a", "b"}
ItemIds == {"i"}
Keywords == {<<>>, <<"test">>}
Methods == {"GET", "POST", "PUT", "DELETE"}

\* the collection documents a request body can carry
Collections == [id : Ids, keywords : Keywords]

Paths ==
    {<<"collections">>}
    \cup {<<"collections", c>> : c \in Ids}
    \cup {<<"collections", c, "items">> : c \in Ids}
    \cup {<<"collections", c, "items", i>> : c \in Ids, i \in ItemIds}

\* a path template matches a request path segment by segment
Match(template, path) ==
    /\ Len(template) = Len(path)
    /\ \A i \in 1..Len(template) : Param(template[i]) \/ template[i] = path[i]

\* the first route whose template and method match serves the request;
\* 405 when only templates match, 404 when nothing does
Dispatch(routes, method, path) ==
    LET full == {i \in 1..Len(routes) :
                    Match(routes[i].path, path) /\ routes[i].method = method}
        part == {i \in 1..Len(routes) : Match(routes[i].path, path)}
    IN  IF full # {}
        THEN [status |-> 200, func |-> routes[CHOOSE i \in full : \A j \in full : i <= j].endpoint.func]
        ELSE IF part # {} THEN [status |-> 405, func |-> None]
        ELSE [status |-> 404, func |-> None]

Reply(status, st) == [status |-> status, store |-> st]

\* the store is a table of collection documents, one row per create
StoredIds(st) == {st[i].id : i \in 1..Len(st)}

\* the first row stored under an id
Stored(st, id) == st[CHOOSE i \in 1..Len(st) : st[i].id = id /\ \A j \in 1..(i - 1) : st[j].id # id]

\* the rows of an id are replaced by the document; an id without a row gets one
Put(st, id, doc) ==
    IF id \in StoredIds(st)
    THEN [i \in 1..Len(st) |-> IF st[i].id = id THEN doc ELSE st[i]]
    ELSE Append(st, doc)

RECURSIVE Remove(_, _)
\* the rows of an id are deleted
Remove(st, id) ==
    IF st = <<>> THEN <<>>
    ELSE (IF Head(st).id = id THEN <<>> ELSE <<Head(st)>>) \o Remove(Tail(st), id)

\* create_collection that overwrites what is stored
create_collection_overwrite(st, collection, dbfail) ==
    IF dbfail THEN Reply(424, st)
    ELSE Reply(200, Put(st, collection.id, collection))

\* create_collection: conflict on an id that is already stored
create_collection(st, collection, dbfail) ==
    IF dbfail THEN Reply(424, st)
    ELSE IF collection.id \in StoredIds(st) THEN Reply(409, st)
    ELSE Reply(200, Append(st, collection))

\* update_collection: full replacement; an id not yet stored is created
update_collection(st, collection_id, collection, dbfail) ==
    IF dbfail THEN Reply(424, st)
    ELSE Reply(200, Put(st, collection_id, collection))

\* delete_collection that lets a storage failure through as a server error
delete_collection_uncaught(st, collection_id, dbfail) ==
    IF collection_id \notin StoredIds(st) THEN Reply(404, st)
    ELSE IF dbfail THEN Reply(500, st)
    ELSE Reply(200, Remove(st, collection_id))

\* delete_collection: not found on an id that is not stored
delete_collection(st, collection_id, dbfail) ==
    IF dbfail THEN Reply(424, st)
    ELSE IF collection_id \notin StoredIds(st) THEN Reply(404, st)
    ELSE Reply(200, Remove(st, collection_id))

NoBody == [id |-> None, keywords |-> <<>>]

Found(status, st, doc, listing) ==
    [status |-> status, store |-> st, doc |-> doc, listing |-> listing]

\* get_collection: the stored document, not found on an id that is not stored
get_collection(st, collection_id, dbfail) ==
    IF dbfail THEN Found(424, st, NoBody, <<>>)
    ELSE IF collection_id \notin StoredIds(st) THEN Found(404, st, NoBody, <<>>)
    ELSE Found(200, st, Stored(st, collection_id), <<>>)

\* all_collections: every stored document
all_collections(st, dbfail) ==
    IF dbfail THEN Found(424, st, NoBody, <<>>)
    ELSE Found(200, st, NoBody, st)

\* the statuses the tests observe from the concrete client
ItemStatuses == {200, 404, 409, 424}

\* the read routes of the core client under /collections, bound by the application
CoreRoutes ==
    << Route("Get Collections", <<"collections">>, "GET",
             BoundMethod("core", "all_collections")),
       Route("Get Collection", <<"collections", "{collection_id}">>, "GET",
             BoundMethod("core", "get_collection")),
       Route("Get ItemCollection", <<"collections", "{collection_id}", "items">>, "GET",
             BoundMethod("core", "item_collection")),
       Route("Get Item", <<"collections", "{collection_id}", "items", "{item_id}">>, "GET",
             BoundMethod("core", "get_item")) >>

\* the application's routes: the core routes, then the included extension routes
AllRoutes == CoreRoutes \o app_routes

Served(method, path, body, fault, func, r) ==
    /\ store' = r.store
    /\ response' = [method |-> method, path |-> path, body |-> body, fault |-> fault,
                    func |-> func, status |-> r.status, before |-> store,
                    doc |-> IF "doc" \in DOMAIN r THEN r.doc ELSE NoBody,
                    listing |-> IF "listing" \in DOMAIN r THEN r.listing ELSE <<>>]
    /\ UNCHANGED <<client, router, app_routes, startup, register_calls>>
    /\ UNCHANGED lpVars

\* a request that the router hands to create_collection
CreateCollection ==
    /\ startup = "registered"
    /\ \E method \in Methods, path \in Paths :
        /\ Dispatch(AllRoutes, method, path).func = "create_collection"
        /\ \E body \in Collections, dbfail \in BOOLEAN :
            Served(method, path, body, dbfail, "create_collection",
                   create_collection(store, body, dbfail))

\* a request that the router hands to update_collection; the document's id is
\* the id of the path
UpdateCollection ==
    /\ startup = "registered"
    /\ \E method \in Methods, path \in Paths :
        /\ Dispatch(AllRoutes, method, path).func = "update_collection"
        /\ \E body \in Collections, dbfail \in BOOLEAN :
            /\ body.id = path[2]
            /\ Served(method, path, body, dbfail, "update_collection",
                      update_collection(store, path[2], body, dbfail))

\* a request that the router hands to delete_collection
DeleteCollection ==
    /\ startup = "registered"
    /\ \E method \in Methods, path \in Paths :
        /\ Dispatch(AllRoutes, method, path).func = "delete_collection"
        /\ \E dbfail \in BOOLEAN :
            Served(method, path, NoBody, dbfail, "delete_collection",
                   delete_collection(store, path[2], dbfail))

\* a request that the router hands to get_collection
GetCollection ==
    /\ startup = "registered"
    /\ \E method \in Methods, path \in Paths :
        /\ Dispatch(AllRoutes, method, path).func = "get_collection"
        /\ \E dbfail \in BOOLEAN :
            Served(method, path, NoBody, dbfail, "get_collection",
                   get_collection(store, path[2], dbfail))

\* a request that the router hands to all_collections
AllCollections ==
    /\ startup = "registered"
    /\ \E method \in Methods, path \in Paths :
        /\ Dispatch(AllRoutes, method, path).func = "all_collections"
        /\ \E dbfail \in BOOLEAN :
            Served(method, path, NoBody, dbfail, "all_collections",
                   all_collections(store, dbfail))

\* a request that the router hands to one of the item operations, whose
\* outcome the concrete client decides
ItemRequest ==
    /\ startup = "registered"
    /\ \E method \in Methods, path \in Paths :
        LET d == Dispatch(AllRoutes, method, path)
        IN  /\ d.func \in {"create_item", "update_item", "delete_item",
                           "get_item", "item_collection"}
            /\ \E item_status \in ItemStatuses :
                Served(method, path, NoBody, item_status = 424, d.func,
                       Reply(item_status, store))

\* a request that no route of the application serves
Unrouted ==
    /\ startup = "registered"
    /\ \E method \in Methods, path \in Paths :
        LET d == Dispatch(AllRoutes, method, path)
        IN  /\ d.func = None
            /\ \E body \in (IF method \in {"POST", "PUT"} THEN Collections ELSE {NoBody}) :
                Served(method, path, body, FALSE, None, Reply(d.status, store))

----------------------------------------------------------------------------
(* Core clients: extension registry, conformance classes, landing page *)

SyncCore == "BaseCoreClient"
AsyncCore == "AsyncBaseCoreClient"
CoreClasses == {SyncCore, AsyncCore}

\* extensions a registry can hold: the class name, whether the instance has a
\* conformance_classes attribute, and that list
FilterExt == [cls |-> "FilterExtension", has_cc |-> TRUE,
              conformance_classes |-> <<"https://api.stacspec.org/v1.0.0-beta.2/item-search#filter",
                                        "https://api.stacspec.org/v1.0.0-beta.2/item-search#filter:cql-text">>]
TransactionExt == [cls |-> "TransactionExtension", has_cc |-> TRUE, conformance_classes |-> <<>>]
QueryExt == [cls |-> "QueryExtension", has_cc |-> FALSE, conformance_classes |-> <<>>]

ExtensionPool == {FilterExt, TransactionExt, QueryExt}

\* str(request.base_url): host, path segments, and whether the path ends in "/"
Url(path, slash) == [host |-> "http://testserver", path |-> path, slash |-> slash]
BaseUrls == {Url(<<>>, TRUE), Url(<<"api">>, TRUE)}

\* urljoin(base, relative path): the relative path replaces what follows the
\* last "/" of the base path
urljoin(base, rel) ==
    LET dir == IF base.slash \/ base.path = <<>> THEN base.path
               ELSE SubSeq(base.path, 1, Len(base.path) - 1)
    IN  [host |-> base.host, path |-> dir \o rel, slash |-> FALSE]

\* LandingPageMixin's attribute defaults
stac_version == "STAC_VERSION"
landing_page_id == "stac-fastapi"
title == "stac-fastapi"
description == "stac-fastapi"

MimeJson == "application/json"
MimeGeoJson == "application/geo+json"

Link(rel, type, ttl, href) == [rel |-> rel, type |-> type, title |-> ttl, href |-> href]

Returned(v) == [raised |-> None, value |-> v]
Raised(e) == [raised |-> e, value |-> <<>>]

\* BaseCoreClient.extension_is_enabled: compares the class names
BaseCoreClient_extension_is_enabled(extension, exts) ==
    Returned(\E i \in 1..Len(exts) : exts[i].cls = extension)

\* AsyncBaseCoreClient.extension_is_enabled: isinstance(ext, extension) for
\* every ext of the registry, which raises TypeError when extension is a str
AsyncBaseCoreClient_extension_is_enabled(extension, exts) ==
    IF exts = <<>> THEN Returned(FALSE)
    ELSE IF extension \in STRING THEN Raised("TypeError")
    ELSE Returned(\E i \in 1..Len(exts) : exts[i].cls = extension.cls)

\* self.extension_is_enabled: the method of the client's class
extension_is_enabled(core, extension, exts) ==
    IF core = SyncCore
    THEN BaseCoreClient_extension_is_enabled(extension, exts)
    ELSE AsyncBaseCoreClient_extension_is_enabled(extension, exts)

CanonicalLinks(base_url) ==
    << Link("self", MimeJson, Absent, base_url),
       Link("data", MimeJson, Absent, urljoin(base_url, <<"collections">>)),
       Link("docs", MimeJson, "OpenAPI docs", urljoin(base_url, <<"docs">>)),
       Link("conformance", MimeJson,
            "STAC/WFS3 conformance classes implemented by this server",
            urljoin(base_url, <<"conformance">>)),
       Link("search", MimeJson, "STAC search", urljoin(base_url, <<"search">>)) >>

QueryablesLink(base_url) ==
    Link("http://www.opengis.net/def/rel/ogc/1.0/queryables", MimeGeoJson,
         "Filter Queryables", urljoin(base_url, <<"queryables">>))

_landing_page(core, base_url, exts) ==
    LET landing_page ==
            [type |-> "Catalog", id |-> landing_page_id, title |-> title,
             description |-> description, stac_version |-> stac_version,
             conformsTo |-> <<"https://stacspec.org/STAC-api.html",
                              "http://docs.opengeospatial.org/is/17-069r3/17-069r3.html#ats_geojson">>,
             links |-> CanonicalLinks(base_url),
             stac_extensions |-> <<>>]
        enabled == extension_is_enabled(core, "FilterExtension", exts)
    IN  IF enabled.raised # None THEN Raised(enabled.raised)
        ELSE IF enabled.value
        THEN Returned([landing_page EXCEPT !.links = Append(@, QueryablesLink(base_url))])
        ELSE Returned(landing_page)

base_conformance ==
    << "https://api.stacspec.org/v1.0.0-beta.2/core",
       "https://api.stacspec.org/v1.0.0-beta.2/ogcapi-features",
       "https://api.stacspec.org/v1.0.0-beta.2/item-search" >>

RECURSIVE ExtendAll(_, _, _)
\* the for loop of list_conformance_classes from extension i on
ExtendAll(acc, exts, i) ==
    IF i > Len(exts) THEN acc
    ELSE LET extension_classes == IF exts[i].has_cc THEN exts[i].conformance_classes ELSE <<>>
         IN  ExtendAll(acc \o extension_classes, exts, i + 1)

\* list_conformance_classes that extends the first extension's own list in place
list_conformance_classes_aliased(exts) ==
    IF exts = <<>> \/ ~exts[1].has_cc
    THEN [ret |-> ExtendAll(base_conformance, exts, 1), extensions |-> exts]
    ELSE LET ret == ExtendAll(exts[1].conformance_classes \o base_conformance, exts, 2)
         IN  [ret |-> ret, extensions |-> [exts EXCEPT ![1].conformance_classes = ret]]

\* list_conformance_classes: the returned list, and the registry as the call leaves it
list_conformance_classes(exts) ==
    [ret |-> ExtendAll(base_conformance, exts, 1), extensions |-> exts]

\* the collections all_collections can hand back: id and optional title
CollectionPool == {[id |-> "a", title |-> Absent], [id |-> "b", title |-> "B"]}

\* what an all_collections call can do: return a list of collections (the
\* declared return type), return a mapping with the list under "collections",
\* or raise
AllCollectionsOutcomes ==
    {[kind |-> k, items |-> s] : k \in {"list", "mapping"},
                                 s \in SeqsUpTo(CollectionPool, MaxCollections)}
    \cup {[kind |-> "raise", items |-> <<>>]}

NotCalled == [kind |-> "not called", items |-> <<>>]
StorageError == "DatabaseError"

ChildLink(ttl, base_url, collection) ==
    Link("child", MimeJson, ttl, urljoin(base_url, <<"collections", collection.id>>))

\* collection.get("title")
GetTitle(collection) == IF collection.title = Absent THEN None ELSE collection.title

\* BaseCoreClient: collection.get("title") or collection.get("id")
BaseCoreClient_child_title(collection) ==
    IF GetTitle(collection) \in {None, ""} THEN collection.id ELSE GetTitle(collection)

\* AsyncBaseCoreClient: collection.get("title")
AsyncBaseCoreClient_child_title(collection) == GetTitle(collection)

RECURSIVE AppendChildren(_, _, _, _, _)
\* the for loop over the collections from index i on
AppendChildren(core, links, base_url, collections, i) ==
    IF i > Len(collections) THEN links
    ELSE LET collection == collections[i]
             ttl == IF core = SyncCore THEN BaseCoreClient_child_title(collection)
                    ELSE AsyncBaseCoreClient_child_title(collection)
         IN  AppendChildren(core, Append(links, ChildLink(ttl, base_url, collection)),
                            base_url, collections, i + 1)

Outcome(raised, value, exts) == [raised |-> raised, value |-> value, extensions |-> exts]

\* BaseCoreClient.landing_page
landing_page(base_url, exts, ac) ==
    LET built == _landing_page(SyncCore, base_url, exts)
        conf == list_conformance_classes(exts)
    IN  IF built.raised # None THEN Outcome(built.raised, <<>>, exts)
        ELSE IF ac.kind = "raise" THEN Outcome(StorageError, <<>>, conf.extensions)
        ELSE IF ac.kind = "list" THEN Outcome("TypeError", <<>>, conf.extensions)
        ELSE Outcome(None,
                     [built.value EXCEPT
                        !.conformsTo = conf.ret,
                        !.links = AppendChildren(SyncCore, @, base_url, ac.items, 1)],
                     conf.extensions)

\* landing_page whose links list already holds the child links of a call
\* that ran the loop on the same list
landing_page_resume_shared(built, base_url, exts, ac) ==
    IF ac.kind = "raise" THEN Outcome(StorageError, <<>>, exts)
    ELSE IF ac.kind = "mapping" THEN Outcome("AttributeError", <<>>, exts)
    ELSE Outcome(None,
                 [built EXCEPT !.links =
                    AppendChildren(AsyncCore,
                                   AppendChildren(AsyncCore, @, base_url, ac.items, 1),
                                   base_url, ac.items, 1)],
                 exts)

\* AsyncBaseCoreClient.landing_page after all_collections was awaited
landing_page_resume(built, base_url, exts, ac) ==
    IF ac.kind = "raise" THEN Outcome(StorageError, <<>>, exts)
    ELSE IF ac.kind = "mapping" THEN Outcome("AttributeError", <<>>, exts)
    ELSE Outcome(None,
                 [built EXCEPT !.links = AppendChildren(AsyncCore, @, base_url, ac.items, 1)],
                 exts)

NoDoc == [type |-> None]

Completed(base_url, ac, r) ==
    [called |-> TRUE, base_url |-> base_url, ac |-> ac, raised |-> r.raised,
     doc |-> IF r.raised = None THEN r.value ELSE NoDoc]

NoCall ==
    [called |-> FALSE, base_url |-> Url(<<>>, TRUE), ac |-> NotCalled, raised |-> None,
     doc |-> NoDoc]

RemoveAt(s, i) == SubSeq(s, 1, i - 1) \o SubSeq(s, i + 1, Len(s))

\* GET / on the synchronous core client
LandingPageSync ==
    /\ \E base_url \in BaseUrls, ac \in AllCollectionsOutcomes :
        LET r == landing_page(base_url, extensions, ac)
        IN  /\ last' = [last EXCEPT ![SyncCore] = Completed(base_url, ac, r)]
            /\ extensions' = r.extensions
    /\ UNCHANGED <<conf_calls, conf_result, pending>>
    /\ UNCHANGED txVars

\* GET / on the suspend-capable core client, up to the await of all_collections
LandingPageAsyncBegin ==
    /\ Len(pending) < MaxPending
    /\ \E base_url \in BaseUrls :
        LET built == _landing_page(AsyncCore, base_url, extensions)
        IN  IF built.raised # None
            THEN /\ last' = [last EXCEPT ![AsyncCore] =
                                Completed(base_url, NotCalled, Outcome(built.raised, <<>>, extensions))]
                 /\ UNCHANGED pending
            ELSE /\ pending' = Append(pending, [base_url |-> base_url, landing_page |-> built.value])
                 /\ UNCHANGED last
    /\ UNCHANGED <<extensions, conf_calls, conf_result>>
    /\ UNCHANGED txVars

\* a suspended landing_page call resumes with what all_collections did
LandingPageAsyncResume ==
    /\ \E i \in 1..Len(pending), ac \in AllCollectionsOutcomes :
        LET call == pending[i]
            r == landing_page_resume(call.landing_page, call.base_url, extensions, ac)
        IN  /\ last' = [last EXCEPT ![AsyncCore] = Completed(call.base_url, ac, r)]
            /\ pending' = RemoveAt(pending, i)
            /\ extensions' = r.extensions
    /\ UNCHANGED <<conf_calls, conf_result>>
    /\ UNCHANGED txVars

\* a call of BaseCoreClient.list_conformance_classes
ListConformanceClasses ==
    /\ conf_calls < MaxConfCalls
    /\ LET r == list_conformance_classes(extensions)
       IN  /\ conf_result' = r.ret
           /\ extensions' = r.extensions
    /\ conf_calls' = conf_calls + 1
    /\ UNCHANGED <<pending, last>>
    /\ UNCHANGED txVars

----------------------------------------------------------------------------
(* Specifications *)

TxInit ==
    /\ client \in ClientClasses
    /\ router = <<>>
    /\ app_routes = <<>>
    /\ startup = "pending"
    /\ register_calls = 0
    /\ store = <<>>
    /\ response = [method |-> None, path |-> <<>>, body |-> NoBody, fault |-> FALSE,
                   func |-> None, status |-> 0, before |-> store,
                   doc |-> NoBody, listing |-> <<>>]

LpInit ==
    /\ extensions \in SeqsUpTo(ExtensionPool, MaxExtensions)
    /\ conf_calls = 0
    /\ conf_result = <<>>
    /\ pending = <<>>
    /\ last = [k \in CoreClasses |-> NoCall]

\* the core clients as constructed with an empty registry
LpIdle ==
    /\ extensions = <<>>
    /\ conf_calls = 0
    /\ conf_result = <<>>
    /\ pending = <<>>
    /\ last = [k \in CoreClasses |-> NoCall]

\* the transaction extension as constructed, not yet registered
TxIdle ==
    /\ client = Sync
    /\ router = <<>>
    /\ app_routes = <<>>
    /\ startup = "pending"
    /\ register_calls = 0
    /\ store = <<>>
    /\ response = [method |-> None, path |-> <<>>, body |-> NoBody, fault |-> FALSE,
                   func |-> None, status |-> 0, before |-> store,
                   doc |-> NoBody, listing |-> <<>>]

TxNext ==
    \/ register
    \/ CreateCollection
    \/ UpdateCollection
    \/ DeleteCollection
    \/ GetCollection
    \/ AllCollections
    \/ ItemRequest
    \/ Unrouted

LpNext ==
    \/ LandingPageSync
    \/ LandingPageAsyncBegin
    \/ LandingPageAsyncResume
    \/ ListConformanceClasses

InitTx == TxInit /\ LpIdle
InitLP == TxIdle /\ LpInit

\* the transaction extension and the collection store
SpecTx == InitTx /\ [][TxNext]_vars

\* the core clients' landing page and conformance classes
SpecLP == InitLP /\ [][LpNext]_vars

----------------------------------------------------------------------------
(* Properties of the transaction extension (checked under SpecTx) *)

\* the (method, path, handler) table of the six transaction routes
RouteTable ==
    { <<"POST", <<"collections", "{collection_id}", "items">>, "create_item">>,
      <<"PUT", <<"collections", "{collection_id}", "items", "{item_id}">>, "update_item">>,
      <<"DELETE", <<"collections", "{collection_id}", "items", "{item_id}">>, "delete_item">>,
      <<"POST", <<"collections">>, "create_collection">>,
      <<"PUT", <<"collections", "{collection_id}">>, "update_collection">>,
      <<"DELETE", <<"collections", "{collection_id}">>, "delete_collection">> }

Bindings(routes) ==
    {<<routes[i].method, routes[i].path, routes[i].endpoint.func>> : i \in 1..Len(routes)}

C2_UnclassifiedClientFailsAtStartup ==
    (client \notin {Sync, Async}) =>
        /\ startup # "registered"
        /\ app_routes = <<>>
        /\ response.func = None

\* C3: every route that register(app) binds has as its handler the endpoint
\* adapter of the client's variant: the asynchronous adapter for an
\* AsyncBaseTransactionsClient, the synchronous one for a BaseTransactionsClient.
C3_AdapterByVariant ==
    (client \in {Sync, Async}) =>
        \A i \in 1..Len(router) :
            router[i].endpoint.adapter =
                (IF client = Async THEN "create_async_endpoint" ELSE "create_sync_endpoint")

PostCollections(r) == r.method = "POST" /\ r.path = <<"collections">>

\* C10 as stated: POST /collections with an id that is already stored
\* returns 409 and leaves every stored collection unchanged.
C10_DuplicateCreateIs409 ==
    (PostCollections(response) /\ response.body.id \in StoredIds(response.before)) =>
        /\ response.status = 409
        /\ store = response.before

\* C10 amended: POST /collections with an id that is already stored leaves
\* every stored collection unchanged and returns 409, except that it returns
\* 424 when the storage fails during the request.
C10_DuplicateCreateIs409Or424 ==
    (PostCollections(response) /\ response.body.id \in StoredIds(response.before)) =>
        /\ response.status = (IF response.fault THEN 424 ELSE 409)
        /\ store = response.before

C10_Witness ==
    /\ PostCollections(response)
    /\ response.body.id \in StoredIds(response.before)
    /\ ~response.fault
    /\ response.status = 409
    /\ response.body # Stored(response.before, response.body.id)
    /\ StoredIds(store) = Ids

\* a request on /collections/{id}
OnCollection(r, method) ==
    /\ r.method = method
    /\ Len(r.path) = 2
    /\ r.path[1] = "collections"

\* C11 as stated: DELETE or GET of /collections/{id} with an id that is not
\* stored returns 404 and leaves the store unchanged.
C11_MissingIs404 ==
    ((OnCollection(response, "DELETE") \/ OnCollection(response, "GET"))
        /\ response.path[2] \notin StoredIds(response.before)) =>
        /\ response.status = 404
        /\ store = response.before

\* C11 amended: DELETE or GET of /collections/{id} with an id that is not
\* stored (never created, or deleted since) leaves the store unchanged and
\* returns 404, except that it returns 424 when the storage fails during the
\* request.
C11_MissingIs404Or424 ==
    ((OnCollection(response, "DELETE") \/ OnCollection(response, "GET"))
        /\ response.path[2] \notin StoredIds(response.before)) =>
        /\ response.status = (IF response.fault THEN 424 ELSE 404)
        /\ store = response.before

C11_Witness ==
    /\ OnCollection(response, "DELETE")
    /\ response.path[2] \notin StoredIds(response.before)
    /\ StoredIds(response.before) # {}
    /\ ~response.fault
    /\ response.status = 404

\* the rows of the other ids
Others(st, id) == SelectSeq(st, LAMBDA row : row.id # id)

UpdateOfExisting(r) ==
    /\ OnCollection(r, "PUT")
    /\ r.path[2] \in StoredIds(r.before)

FetchOfStored(r) ==
    /\ OnCollection(r, "GET")
    /\ r.path[2] \in StoredIds(r.before)

Count(listing, id) == Cardinality({i \in 1..Len(listing) : listing[i].id = id})

\* C13 as stated: a fetch of a stored id returns a document with that id, and
\* a listing holds every stored id exactly once and no id twice.
C13_StoredIsVisible ==
    /\ FetchOfStored(response) =>
          response.status = 200 /\ response.doc.id = response.path[2]
    /\ (response.method = "GET" /\ response.path = <<"collections">>) =>
          /\ response.status = 200
          /\ \A id \in Ids :
                Count(response.listing, id) = (IF id \in StoredIds(store) THEN 1 ELSE 0)

\* C13 amended: a successful create of a fresh id stores it, and a stored id
\* stays stored until a successful DELETE of it; a fetch of a stored id
\* returns a document with that id and a listing holds every stored id exactly
\* once and no id twice, except that a read returns 424 when the storage fails
\* during it.
C13_VisibleUntilDeleted ==
    /\ []((response.method = "POST" /\ response.path = <<"collections">>
             /\ response.status = 200) =>
            /\ response.body.id \notin StoredIds(response.before)
            /\ response.body.id \in StoredIds(store))
    /\ [][\A id \in Ids :
            (id \in StoredIds(store) /\ id \notin StoredIds(store')) =>
                /\ OnCollection(response', "DELETE")
                /\ response'.path[2] = id
                /\ response'.status = 200]_vars
    /\ [](FetchOfStored(response) =>
            IF response.fault
            THEN response.status = 424
            ELSE response.status = 200 /\ response.doc.id = response.path[2])
    /\ []((response.method = "GET" /\ response.path = <<"collections">>) =>
            IF response.fault
            THEN response.status = 424
            ELSE /\ response.status = 200
                 /\ \A id \in Ids :
                       Count(response.listing, id)
                           = (IF id \in StoredIds(store) THEN 1 ELSE 0))

C13_Witness ==
    /\ response.method = "GET"
    /\ response.path = <<"collections">>
    /\ ~response.fault
    /\ Len(response.listing) = 2
    /\ Count(response.listing, "a") = 1
    /\ Count(response.listing, "b") = 1

\* a create, update, fetch, list or delete request on the collections
CollectionRequest(r) ==
    /\ r.method \in {"GET", "POST", "PUT", "DELETE"}
    /\ Len(r.path) \in {1, 2}

\* C14: a collection request during which the storage fails returns 424 (no
\* success status, no server error) and leaves the stored collections as they
\* were.
C14_StorageFailureIs424 ==
    (CollectionRequest(response) /\ response.fault) =>
        /\ response.status = 424
        /\ store = response.before

C14_Witness ==
    /\ OnCollection(response, "DELETE")
    /\ response.path[2] \in StoredIds(response.before)
    /\ response.fault
    /\ response.status = 424
    /\ store = response.before

----------------------------------------------------------------------------
(* Properties of the core clients (checked under SpecLP) *)

FilterEnabled(exts) == \E i \in 1..Len(exts) : exts[i].cls = "FilterExtension"

Rels(links) == [i \in 1..Len(links) |-> links[i].rel]

\* the links of rel r, in order
RECURSIVE LinksOf(_, _)
LinksOf(links, r) ==
    IF links = <<>> THEN <<>>
    ELSE (IF Head(links).rel = r THEN <<Head(links)>> ELSE <<>>) \o LinksOf(Tail(links), r)

\* the links before the first child link
RECURSIVE BeforeChildren(_)
BeforeChildren(links) ==
    IF links = <<>> \/ Head(links).rel = "child" THEN <<>>
    ELSE <<Head(links)>> \o BeforeChildren(Tail(links))

\* base URL joined with a relative path, for base URLs that end in "/"
Under(base_url, rel) == [host |-> base_url.host, path |-> base_url.path \o rel, slash |-> FALSE]

FiveRels == <<"self", "data", "docs", "conformance", "search">>

LandingPageFor(k, call) ==
    LET links == call.doc.links
        children == LinksOf(links, "child")
        head == BeforeChildren(links)
    IN  /\ call.raised = None
        /\ SubSeq(Rels(head), 1, 5) = FiveRels
        /\ links = head \o children
        /\ Len(children) = Len(call.ac.items)
        /\ \A i \in 1..Len(children) :
              children[i].href = Under(call.base_url, <<"collections", call.ac.items[i].id>>)

\* C4: whenever all_collections returns a list of collections, landing_page
\* (of either core client) returns a document whose links are the self, data,
\* docs, conformance and search links followed by one child link per returned
\* collection, in order, each href being base URL + collections/<id>.
C4_ChildLinkPerCollection ==
    \A k \in CoreClasses :
        (last[k].called /\ last[k].ac.kind = "list") => LandingPageFor(k, last[k])

\* C5: landing_page fails only if all_collections fails, and then with that
\* same error: a call in which all_collections did not raise returns a
\* document, and a call in which it raised raises the storage error.
C5_FailsOnlyIfAllCollectionsFails ==
    \A k \in CoreClasses :
        (last[k].called /\ last[k].ac.kind # "mapping") =>
            /\ (last[k].ac.kind = "raise") => (last[k].raised = StorageError)
            /\ (last[k].ac.kind # "raise") => (last[k].raised = None)

ExpectedBuiltLinks(base_url, exts) ==
    << [rel |-> "self", type |-> "application/json", title |-> Absent, href |-> base_url],
       [rel |-> "data", type |-> "application/json", title |-> Absent,
        href |-> Under(base_url, <<"collections">>)],
       [rel |-> "docs", type |-> "application/json", title |-> "OpenAPI docs",
        href |-> Under(base_url, <<"docs">>)],
       [rel |-> "conformance", type |-> "application/json",
        title |-> "STAC/WFS3 conformance classes implemented by this server",
        href |-> Under(base_url, <<"conformance">>)],
       [rel |-> "search", type |-> "application/json", title |-> "STAC search",
        href |-> Under(base_url, <<"search">>)] >>
    \o (IF FilterEnabled(exts)
        THEN << [rel |-> "http://www.opengis.net/def/rel/ogc/1.0/queryables",
                 type |-> "application/geo+json", title |-> "Filter Queryables",
                 href |-> Under(base_url, <<"queryables">>)] >>
        ELSE <<>>)

\* C6: for both core clients and every registry, _landing_page builds a
\* document with exactly the five canonical links, followed by the queryables
\* link exactly when a filter extension is in the registry.
C6_CanonicalLinks ==
    /\ \A i \in 1..Len(pending) :
          pending[i].landing_page.links = ExpectedBuiltLinks(pending[i].base_url, extensions)
    /\ \A k \in CoreClasses :
          last[k].called =>
              /\ last[k].ac # NotCalled
              /\ (last[k].raised = None) =>
                    BeforeChildren(last[k].doc.links)
                        = ExpectedBuiltLinks(last[k].base_url, extensions)

\* C7: given the same base URL, registry and all_collections outcome, the two
\* core clients' landing_page calls end the same way and return equal documents.
C7_SyncAsyncEqual ==
    (/\ last[SyncCore].called
     /\ last[AsyncCore].called
     /\ last[SyncCore].base_url = last[AsyncCore].base_url
     /\ last[SyncCore].ac = last[AsyncCore].ac
     /\ last[SyncCore].ac.kind = "list") =>
        /\ last[SyncCore].raised = last[AsyncCore].raised
        /\ last[SyncCore].doc = last[AsyncCore].doc

RECURSIVE DeclaredClasses(_)
\* the conformance classes the extensions of a registry declare, in registry order
DeclaredClasses(exts) ==
    IF exts = <<>> THEN <<>>
    ELSE (IF Head(exts).has_cc THEN Head(exts).conformance_classes ELSE <<>>)
         \o DeclaredClasses(Tail(exts))

\* C8: every list_conformance_classes call returns the three base URIs
\* followed by the extensions' conformance classes in registry order, the same
\* list on every call, and no step changes the registry or an extension's own
\* conformance_classes.
C8_ConformanceClasses ==
    [][ /\ extensions' = extensions
        /\ (conf_calls' # conf_calls) =>
              /\ conf_result' =
                    << "https://api.stacspec.org/v1.0.0-beta.2/core",
                       "https://api.stacspec.org/v1.0.0-beta.2/ogcapi-features",
                       "https://api.stacspec.org/v1.0.0-beta.2/item-search" >>
                    \o DeclaredClasses(extensions)
              /\ (conf_calls > 0) => (conf_result' = conf_result) ]_vars

C8_Witness ==
    /\ conf_calls = 2
    /\ extensions = <<TransactionExt, FilterExt>>
    /\ Len(conf_result) = 5
    /\ conf_result[4] = FilterExt.conformance_classes[1]

Elems(seq) == {seq[i] : i \in 1..Len(seq)}

\* C9: the document landing_page returns keeps in conformsTo the URIs that
\* _landing_page put there and also holds the conformance classes of every
\* extension of the registry, for both core clients.
C9_ConformsToAppended ==
    \A k \in CoreClasses :
        (last[k].called /\ last[k].raised = None) =>
            /\ { "https://stacspec.org/STAC-api.html",
                 "http://docs.opengeospatial.org/is/17-069r3/17-069r3.html#ats_geojson" }
                  \subseteq Elems(last[k].doc.conformsTo)
            /\ Elems(DeclaredClasses(extensions)) \subseteq Elems(last[k].doc.conformsTo)

\* the call ended with a document
ReturnedDoc(call) == call.called /\ call.raised = None

\* C15: every document landing_page returns, also when other suspend-capable
\* calls are suspended at all_collections meanwhile, holds exactly the links
\* _landing_page builds for its own base URL followed by the child links of
\* the collections its own all_collections call returned, and two calls of a
\* client with the same base URL and collections return the same document.
C15_NoSharedState ==
    /\ [](\A k \in CoreClasses :
            ReturnedDoc(last[k]) =>
                /\ BeforeChildren(last[k].doc.links)
                       = ExpectedBuiltLinks(last[k].base_url, extensions)
                /\ LandingPageFor(k, last[k]))
    /\ [](\A i \in 1..Len(pending) :
            pending[i].landing_page.links
                = ExpectedBuiltLinks(pending[i].base_url, extensions))
    /\ [][\A k \in CoreClasses :
            (/\ ReturnedDoc(last[k])
             /\ ReturnedDoc(last'[k])
             /\ last'[k].base_url = last[k].base_url
             /\ last'[k].ac = last[k].ac)
                => last'[k].doc = last[k].doc]_vars

C15_Witness ==
    /\ ReturnedDoc(last[AsyncCore])
    /\ Len(last[AsyncCore].ac.items) = 2
    /\ Len(last[AsyncCore].doc.links) = 7
    /\ Len(pending) = 2
    /\ pending[1].base_url # last[AsyncCore].base_url
    /\ pending[2].base_url = last[AsyncCore].base_url

====
